---- MODULE Spec2Model ----
(***************************************************************************)
(* Model of loop_creator.generator.generate_loop (src/loop_creator/        *)
(* generator.py): the timeline planner, the two second-order trackers, the *)
(* warm-up and recording loops, and the frame sampler.                     *)
(*                                                                         *)
(* Python floats are modelled as decimal floating-point numbers <<m, e>>   *)
(* of value m * 10^e with a six-digit mantissa (100000 <= |m| <= 999999,   *)
(* or m = 0), the exponent range of binary64, and the three special values *)
(* inf, -inf and nan.  Every operation rounds its result to six digits,    *)
(* overflows to +-inf and propagates nan the way IEEE-754 arithmetic does. *)
(***************************************************************************)
EXTENDS Integers, Sequences, FiniteSets, TLC

----------------------------------------------------------------------------
(* Floating point                                                          *)

Mant == 1000000
MaxExp10 == 308
MinExp10 == -324
MaxMant308 == 179769
SpecialExp == 400

Zero == <<0, 0>>
Inf == <<1, SpecialExp>>
NegInf == <<-1, SpecialExp>>
NaN == <<0, SpecialExp>>

IsNaN(x) == x = NaN
IsInf(x) == x = Inf \/ x = NegInf
IsFinite(x) == x[2] # SpecialExp

Abs(n) == IF n < 0 THEN -n ELSE n
Sgn(n) == IF n < 0 THEN -1 ELSE IF n > 0 THEN 1 ELSE 0
IMax(a, b) == IF a > b THEN a ELSE b
IMin(a, b) == IF a < b THEN a ELSE b

Pow10(n) ==
  CASE n = 0 -> 1 [] n = 1 -> 10 [] n = 2 -> 100 [] n = 3 -> 1000
    [] n = 4 -> 10000 [] n = 5 -> 100000 [] n = 6 -> 1000000
    [] n = 7 -> 10000000 [] n = 8 -> 100000000 [] n = 9 -> 1000000000

NumDigits(a) ==
  IF a < 10 THEN 1 ELSE IF a < 100 THEN 2 ELSE IF a < 1000 THEN 3
  ELSE IF a < 10000 THEN 4 ELSE IF a < 100000 THEN 5
  ELSE IF a < 1000000 THEN 6 ELSE IF a < 10000000 THEN 7
  ELSE IF a < 100000000 THEN 8 ELSE IF a < 1000000000 THEN 9 ELSE 10

\* range check of a normalised mantissa/exponent pair: overflow to +-inf,
\* underflow to zero
Pack(m, e) ==
  IF e + 5 > MaxExp10 \/ (e + 5 = MaxExp10 /\ Abs(m) > MaxMant308)
  THEN (IF m > 0 THEN Inf ELSE NegInf)
  ELSE IF e + 5 < MinExp10 THEN Zero ELSE <<m, e>>

\* a / pw rounded to the nearest integer (halves away from zero), a >= 0
RoundDiv(a, pw) == (a \div pw) + (IF (a % pw) * 2 >= pw THEN 1 ELSE 0)

\* a rounded mantissa q <= 10^6 with sign s
RoundPack(q, s, e) ==
  IF q = Mant THEN Pack(s * (Mant \div 10), e + 1) ELSE Pack(s * q, e)

NormDigits(a, s, e, d) ==
  IF d > 6 THEN RoundPack(RoundDiv(a, Pow10(d - 6)), s, e + (d - 6))
  ELSE Pack(s * a * Pow10(6 - d), e - (6 - d))

\* the float nearest to the integer m times 10^e
Norm(m, e) ==
  IF m = 0 THEN Zero ELSE NormDigits(Abs(m), Sgn(m), e, NumDigits(Abs(m)))

FromInt(n) == Norm(n, 0)

FNeg(x) == IF IsNaN(x) THEN NaN ELSE <<-x[1], x[2]>>
FAbs(x) == IF IsNaN(x) THEN NaN ELSE <<Abs(x[1]), x[2]>>

\* x < y for two numbers of signs sx and sy
LtSigned(x, y, sx, sy) ==
  IF sx # sy THEN sx < sy
  ELSE IF sx = 0 THEN FALSE
  ELSE IF sx > 0 THEN x[2] < y[2] \/ (x[2] = y[2] /\ x[1] < y[1])
  ELSE x[2] > y[2] \/ (x[2] = y[2] /\ x[1] < y[1])

\* x < y as Python compares floats: every comparison with nan is false
FLt(x, y) ==
  IF IsNaN(x) \/ IsNaN(y) THEN FALSE
  ELSE LtSigned(x, y, Sgn(x[1]), Sgn(y[1]))

FGt(x, y) == FLt(y, x)
FLe(x, y) == ~IsNaN(x) /\ ~IsNaN(y) /\ ~FLt(y, x)
FGe(x, y) == FLe(y, x)

\* hi + lo where lo's exponent is g + r below hi's: hi is extended by g
\* guard digits, lo rounded off by r digits
AddShifted(hi, lo, g, r) ==
  Norm(hi[1] * Pow10(g) + Sgn(lo[1]) * RoundDiv(Abs(lo[1]), Pow10(r)),
       hi[2] - g)

AddAligned(hi, lo, d) ==
  IF d > 8 THEN hi ELSE AddShifted(hi, lo, IMin(d, 3), d - IMin(d, 3))

FAdd(x, y) ==
  IF IsNaN(x) \/ IsNaN(y) THEN NaN
  ELSE IF IsInf(x) THEN (IF IsInf(y) /\ y # x THEN NaN ELSE x)
  ELSE IF IsInf(y) THEN y
  ELSE IF x[1] = 0 THEN y
  ELSE IF y[1] = 0 THEN x
  ELSE IF x[2] >= y[2] THEN AddAligned(x, y, x[2] - y[2])
  ELSE AddAligned(y, x, y[2] - x[2])

FSub(x, y) == FAdd(x, FNeg(y))

\* floor(a * b / 10^4) for the limbs of a = ah * 1000 + al and
\* b = bh * 1000 + bl, without exceeding 32 bits
MulLimbs(ah, al, bh, bl) ==
  ah * bh * 100 + ((ah * bl + al * bh) * 1000 + al * bl) \div 10000

MulAbs(a, b) == MulLimbs(a \div 1000, a % 1000, b \div 1000, b % 1000)

FMul(x, y) ==
  IF IsNaN(x) \/ IsNaN(y) THEN NaN
  ELSE IF IsInf(x) \/ IsInf(y)
  THEN (IF x[1] = 0 \/ y[1] = 0 THEN NaN
        ELSE IF Sgn(x[1]) = Sgn(y[1]) THEN Inf ELSE NegInf)
  ELSE IF x[1] = 0 \/ y[1] = 0 THEN Zero
  ELSE Norm(Sgn(x[1]) * Sgn(y[1]) * MulAbs(Abs(x[1]), Abs(y[1])),
            x[2] + y[2] + 4)

\* floor(r * 10^n / b) + q * 10^n for 0 <= r < b, by long division
RECURSIVE LongDiv(_, _, _, _)
LongDiv(q, r, b, n) ==
  IF n = 0 THEN q
  ELSE LongDiv(q * 10 + (r * 10) \div b, (r * 10) % b, b, n - 1)

DivAbs(a, b) == LongDiv(a \div b, a % b, b, 7)

\* Python raises ZeroDivisionError on x / y when y is zero
DivZero(y) == IsFinite(y) /\ y[1] = 0

\* x / y for y # 0
FDiv(x, y) ==
  IF IsNaN(x) \/ IsNaN(y) THEN NaN
  ELSE IF IsInf(x)
  THEN (IF IsInf(y) THEN NaN
        ELSE IF Sgn(x[1]) * (IF y[1] < 0 THEN -1 ELSE 1) > 0 THEN Inf
        ELSE NegInf)
  ELSE IF IsInf(y) THEN Zero
  ELSE IF x[1] = 0 THEN Zero
  ELSE Norm(Sgn(x[1]) * Sgn(y[1]) * DivAbs(Abs(x[1]), Abs(y[1])),
            x[2] - y[2] - 7)

\* q + r / pw rounded to the nearest integer, halves to the even neighbour
HalfEven(q, r, pw) ==
  IF 2 * r > pw THEN q + 1 ELSE IF 2 * r = pw THEN q + (q % 2) ELSE q

\* round(x) for a finite float x
RoundInt(x) ==
  IF x[1] = 0 \/ x[2] <= -7 THEN 0
  ELSE IF x[2] >= 0 THEN x[1] * Pow10(x[2])
  ELSE Sgn(x[1]) * HalfEven(Abs(x[1]) \div Pow10(-x[2]),
                            Abs(x[1]) % Pow10(-x[2]), Pow10(-x[2]))

\* float literals of the source
F(m, e) == Norm(m, e)
One == F(1, 0)
Two == F(2, 0)
Half == F(5, -1)
Pi == F(314159, -5)
Eps == F(1, -8)

\* the Taylor polynomials of cos and sin for 0 <= z <= pi/4, w = z * z
CosPoly(w) ==
  FSub(One, FMul(w, FSub(Half, FMul(w, FSub(F(416667, -7),
       FMul(w, FSub(F(138889, -8), FMul(w, F(248016, -10)))))))))

SinPoly(z, w) ==
  FMul(z, FSub(One, FMul(w, FSub(F(166667, -6), FMul(w,
       FSub(F(833333, -8), FMul(w, F(198413, -9))))))))

\* <<cos z, sin z>> for 0 <= z <= pi/4
KernelCosSin(z) == <<CosPoly(FMul(z, z)), SinPoly(z, FMul(z, z))>>

\* <<cos, sin>> of s microradians, 0 <= s < pi/2
FoldedCosSin(s) ==
  IF s > 785398
  THEN <<KernelCosSin(Norm(1570796 - s, -6))[2],
         KernelCosSin(Norm(1570796 - s, -6))[1]>>
  ELSE KernelCosSin(Norm(s, -6))

\* <<cos, sin>> of an angle n quarter turns beyond one of cosine and sine cs
Quadrant(n, cs) ==
  CASE n = 1 -> <<FNeg(cs[2]), cs[1]>>
    [] n = 2 -> <<FNeg(cs[1]), FNeg(cs[2])>>
    [] n = 3 -> <<cs[2], FNeg(cs[1])>>
    [] OTHER -> cs

\* <<cos, sin>> of an angle of r microradians, 0 <= r < 2 * pi
CosSinMicro(r) == Quadrant(r \div 1570796, FoldedCosSin(r % 1570796))

\* |x| in microradians, as far as 32 bits go: above 2000 rad six digits no
\* longer resolve the angle and the mantissa alone is taken
Micro(a, e) ==
  IF e <= -6 THEN (IF -e - 6 > 9 THEN 0 ELSE a \div Pow10(-e - 6))
  ELSE IF e <= -3 THEN a * Pow10(e + 6)
  ELSE a

\* |x| reduced modulo 2 * pi, in microradians
ReduceMicro(x) == Micro(Abs(x[1]), x[2]) % 6283185

\* math.cos / math.sin of a float that is neither inf nor nan
Cos(x) == CosSinMicro(ReduceMicro(x))[1]
Sin(x) ==
  IF x[1] < 0 THEN FNeg(CosSinMicro(ReduceMicro(x))[2])
  ELSE CosSinMicro(ReduceMicro(x))[2]

----------------------------------------------------------------------------
(* generate_loop                                                           *)

Procs == {1, 2}

VARIABLES
  suite,    \* the name of the input set the calls draw their LoopParams from
  budget,   \* budget[p]: how many calls of generate_loop p still makes
  pc,       \* pc[p]: "idle", "warmup", "record", "returned" or "raised"
  params,   \* params[p]: the LoopParams object of the current call
  plan,     \* plan[p]: the derived constants (lines 50-74)
  trk,      \* trk[p]: theta, theta_d, psi, psi_d
  t,        \* t[p]: the local t
  i,        \* i[p]: iterations of the current loop done so far
  frames,   \* frames[p]: the list frames
  first,    \* first[p]: the trackers as frame 0 was sampled from them
  exc,      \* exc[p]: the exception that ended the call, or "none"
  prev,     \* prev[p]: parameters and outcome of the previous call of p
  via,      \* via[p]: who called: "direct", "cli", "api" or "export"
  req,      \* req[p]: the values the caller supplied, as supplied
  resp      \* resp[p]: what the adapter handed back, or NoResponse

\* the caller's side of an invocation
caller == <<via, req, resp>>

vars ==
  <<suite, budget, pc, params, plan, trk, t, i, frames, first, exc, prev,
    caller>>

clamp(value, lo, hi) ==
  IF FLt(value, lo) THEN lo ELSE IF FGt(value, hi) THEN hi ELSE value

\* LoopParams with the dataclass defaults
DefaultParams ==
  [duration_seconds |-> F(2, 0), fps |-> 60, radius |-> F(100, 0),
   center_x |-> Zero, center_y |-> Zero, phase0_rad |-> Zero,
   elasticidade |-> F(5, -1), fluidez |-> F(5, -1), inercia |-> F(5, -1),
   amolecimento |-> F(2, -1), loops |-> 1, pre_roll_loops |-> 3]

LoopFrame(index, time, x, y, travel_angle, orientation, scale_tangent, scale_normal) ==
  [index |-> index, time |-> time, x |-> x, y |-> y,
   travel_angle |-> travel_angle, orientation |-> orientation,
   scale_tangent |-> scale_tangent, scale_normal |-> scale_normal]

\* lines 51-53
Loops(q) == IMax(1, q.loops)

\* line 52 with the sign of fps dropped before the floor
FpsMagnitude(q) == IMax(1, Abs(q.fps))

\* line 52
Fps(q) == IMax(1, q.fps)
FrameProduct(q) == FMul(q.duration_seconds, FromInt(Fps(q)))
FrameCount(q) == IMax(1, RoundInt(FrameProduct(q)))

\* lines 54-55
Dt(fps) == FDiv(One, FromInt(fps))
Period(N, dt) == FMul(FromInt(N), dt)

\* line 58
OmegaTarget(loops, T) == FDiv(FMul(FMul(Two, Pi), FromInt(loops)), T)

\* lines 62 and 67 with the damping left at its floor, whatever fluidez is
ZetaUndamped(fluidez) == F(5, -2)

\* lines 62 and 67
Zeta(fluidez) ==
  clamp(FAdd(F(5, -2), FMul(F(195, -2), fluidez)), F(5, -2), F(25, -1))

\* line 64 with elasticidade taken as given
OmegaNPosUnclamped(omega_target, elasticidade) ==
  FMul(omega_target, FAdd(Half, FMul(F(3, 0), elasticidade)))

\* line 64
OmegaNPos(omega_target, elasticidade) ==
  FMul(omega_target,
       FAdd(Half, FMul(F(3, 0), clamp(elasticidade, Zero, One))))

\* lines 68-69 with the inertia term added instead of subtracted
OmegaNOrientRising(omega_target, inercia) ==
  clamp(FMul(omega_target,
             FAdd(Two, FMul(F(18, -1), clamp(inercia, Zero, One)))),
        FMul(omega_target, F(15, -2)), FMul(omega_target, F(4, 0)))

\* lines 68-69
OmegaNOrient(omega_target, inercia) ==
  clamp(FMul(omega_target,
             FSub(Two, FMul(F(18, -1), clamp(inercia, Zero, One)))),
        FMul(omega_target, F(15, -2)), FMul(omega_target, F(4, 0)))

\* lines 72-74
PreLoops(q) == IMax(0, q.pre_roll_loops)
PreDuration(pre_loops, loops, T) ==
  FMul(FDiv(FromInt(pre_loops), FromInt(loops)), T)
PreSteps(pre_duration, dt) == RoundInt(FDiv(pre_duration, dt))

\* the derived constants when lines 50-74 raise exception e
NoPlan(e) ==
  [exc |-> e, N |-> 0, dt |-> Zero, T |-> Zero, omega_target |-> Zero,
   zeta_pos |-> Zero, omega_n_pos |-> Zero, zeta_orient |-> Zero,
   omega_n_orient |-> Zero, pre_duration |-> Zero, pre_steps |-> 0]

\* lines 58-74, given N, dt, T and omega_target and pre_duration
PlanRates(q, N, dt, T, w, pd) ==
  [exc |-> "none", N |-> N, dt |-> dt, T |-> T, omega_target |-> w,
   zeta_pos |-> Zeta(q.fluidez),
   omega_n_pos |-> OmegaNPos(w, q.elasticidade),
   zeta_orient |-> Zeta(q.fluidez),
   omega_n_orient |-> OmegaNOrient(w, q.inercia),
   pre_duration |-> pd, pre_steps |-> PreSteps(pd, dt)]

\* lines 55-74: dividing by T = 0 is a ZeroDivisionError
PlanPeriod(q, N, dt, T) ==
  IF DivZero(T) THEN NoPlan("ZeroDivisionError")
  ELSE PlanRates(q, N, dt, T, OmegaTarget(Loops(q), T),
                 PreDuration(PreLoops(q), Loops(q), T))

\* lines 53-74: int(round(x)) raises OverflowError on inf, ValueError on nan
PlanCount(q, product) ==
  IF IsInf(product) THEN NoPlan("OverflowError")
  ELSE IF IsNaN(product) THEN NoPlan("ValueError")
  ELSE PlanPeriod(q, FrameCount(q), Dt(Fps(q)),
                  Period(FrameCount(q), Dt(Fps(q))))

\* lines 50-74: the derived constants of a call with parameters q
Plan(q) == PlanCount(q, FrameProduct(q))

\* lines 77-80
NoTrackers == [theta |-> Zero, theta_d |-> Zero, psi |-> Zero, psi_d |-> Zero]

\* lines 77-80 with the angle tracker starting on the ramp of the warm-up
InitTrackersOnRamp(q, c) ==
  [theta |-> FSub(q.phase0_rad, FMul(c.omega_target, c.pre_duration)),
   theta_d |-> c.omega_target,
   psi |-> FAdd(q.phase0_rad, FMul(Pi, Half)), psi_d |-> c.omega_target]

\* lines 77-80 with both trackers starting at rest
InitTrackersAtRest(q, c) ==
  [theta |-> q.phase0_rad, theta_d |-> Zero,
   psi |-> FAdd(q.phase0_rad, FMul(Pi, Half)), psi_d |-> Zero]

InitTrackers(q, c) ==
  [theta |-> q.phase0_rad, theta_d |-> c.omega_target,
   psi |-> FAdd(q.phase0_rad, FMul(Pi, Half)), psi_d |-> c.omega_target]

\* lines 90-91 and 98-99: the acceleration of a second-order tracker
Accel(omega_n, zeta, target, target_d, x, x_d) ==
  FAdd(FMul(FMul(omega_n, omega_n), FSub(target, x)),
       FMul(FMul(FMul(Two, zeta), omega_n), FSub(target_d, x_d)))

\* lines 92-93 and 100-101 with the position wrapped into one turn once it
\* has passed 2 * pi
AdvanceWrapped(x, x_d, dt) ==
  <<IF FGt(FAdd(x, FMul(x_d, dt)), FMul(Two, Pi))
    THEN FSub(FAdd(x, FMul(x_d, dt)), FMul(Two, Pi))
    ELSE FAdd(x, FMul(x_d, dt)), x_d>>

\* lines 92-93 and 100-101: the position is advanced with the new velocity
Advance(x, x_d, dt) == <<FAdd(x, FMul(x_d, dt)), x_d>>
Integrate(x, x_d, x_dd, dt) == Advance(x, FAdd(x_d, FMul(x_dd, dt)), dt)

\* lines 85-93 with the angle tracker driven at the orientation tracker's
\* natural frequency
StepAngleCoupled(q, c, s, tt) ==
  Integrate(s.theta, s.theta_d,
            Accel(c.omega_n_orient, c.zeta_pos,
                  FAdd(q.phase0_rad, FMul(c.omega_target, tt)),
                  c.omega_target, s.theta, s.theta_d),
            c.dt)

\* lines 85-93: <<theta, theta_d>> after the advance at simulated time tt
StepAngle(q, c, s, tt) ==
  Integrate(s.theta, s.theta_d,
            Accel(c.omega_n_pos, c.zeta_pos,
                  FAdd(q.phase0_rad, FMul(c.omega_target, tt)),
                  c.omega_target, s.theta, s.theta_d),
            c.dt)

\* lines 96-101: <<psi, psi_d>> chasing the advanced angle a = <<theta,
\* theta_d>>
StepOrient(c, s, a) ==
  Integrate(s.psi, s.psi_d,
            Accel(c.omega_n_orient, c.zeta_orient,
                  FAdd(a[1], FMul(Pi, Half)), a[2], s.psi, s.psi_d),
            c.dt)

Trackers(a, o) ==
  [theta |-> a[1], theta_d |-> a[2], psi |-> o[1], psi_d |-> o[2]]

\* lines 96-101 chasing the angle and rate of turn of before the advance
StepBothStale(c, s, a) ==
  Trackers(a, StepOrient(c, s, <<s.theta, s.theta_d>>))

StepBoth(c, s, a) == Trackers(a, StepOrient(c, s, a))

\* lines 82-101: one advance of both trackers at simulated time tt
StepOnce(q, c, s, tt) == StepBoth(c, s, StepAngle(q, c, s, tt))

\* lines 122-124
VMean(q, c) == FAdd(FAbs(FMul(q.radius, c.omega_target)), Eps)
Deviation(v, v_mean) == FDiv(FSub(v, v_mean), v_mean)
NormSpeed(q, c, s) ==
  clamp(Deviation(FAbs(FMul(q.radius, s.theta_d)), VMean(q, c)),
        FNeg(One), One)

\* lines 125-128
StretchGain(q) == FMul(F(6, -1), clamp(q.amolecimento, Zero, One))
Stretch(q, c, s) ==
  clamp(FMul(StretchGain(q), NormSpeed(q, c, s)), F(-9, -1), F(15, -1))
ScaleTangent(q, c, s) ==
  clamp(FAdd(One, Stretch(q, c, s)), F(4, -1), F(25, -1))

\* line 128 with an upper limit of 2.0 instead of 2.5
ScaleNormalTight(scale_tangent) ==
  clamp(FDiv(One, scale_tangent), F(4, -1), Two)

\* line 128 with a lower limit of 0.7 instead of 0.4
ScaleNormalFloored(scale_tangent) ==
  clamp(FDiv(One, scale_tangent), F(7, -1), F(25, -1))

\* line 128
ScaleNormal(scale_tangent) ==
  clamp(FDiv(One, scale_tangent), F(4, -1), F(25, -1))

\* math.cos(theta) of line 118 and math.sin(theta) of line 119: nan for
\* nan, ValueError for +-inf
PyCos(theta) == IF IsNaN(theta) THEN NaN ELSE Cos(theta)
PySin(theta) == IF IsNaN(theta) THEN NaN ELSE Sin(theta)

\* lines 130-141
Frame(q, s, k, tt, scale_tangent) ==
  LoopFrame(k, tt,
            FAdd(q.center_x, FMul(q.radius, PyCos(s.theta))),
            FAdd(q.center_y, FMul(q.radius, PySin(s.theta))),
            s.theta, s.psi, scale_tangent, ScaleNormal(scale_tangent))

\* the exception lines 117-128 raise on tracker state s, or "none"
SampleExc(q, c, s) ==
  IF IsInf(s.theta) THEN "ValueError"
  ELSE IF DivZero(VMean(q, c)) \/ DivZero(ScaleTangent(q, c, s))
  THEN "ZeroDivisionError"
  ELSE "none"

\* lines 117-141: the frame sampled from tracker state s at index k, time tt
Sample(q, c, s, k, tt) == Frame(q, s, k, tt, ScaleTangent(q, c, s))

----------------------------------------------------------------------------
(* Inputs                                                                  *)

MaxFps == 2
MaxLoops == 2
MaxPreRoll == 3

Durations == {F(-1, 0), Zero, F(1, -3), Half, One, F(25, -1)}
KnobValues == {F(-5, -1), Zero, One, F(15, -1)}
Radii == {Zero, F(100, 0), F(1, 308)}

\* every timeline, in and out of range, with the default knobs
TimelineParams ==
  {[DefaultParams EXCEPT !.duration_seconds = d, !.fps = f, !.loops = l,
                         !.pre_roll_loops = r] :
     d \in Durations, f \in -1..MaxFps, l \in 0..MaxLoops,
     r \in -1..MaxPreRoll}

\* every combination of knob values and radius on a short timeline
KnobParams ==
  {[DefaultParams EXCEPT !.duration_seconds = One, !.fps = MaxFps,
                         !.pre_roll_loops = 1, !.radius = rd,
                         !.elasticidade = k[1], !.fluidez = k[2],
                         !.inercia = k[3], !.amolecimento = k[4]] :
     k \in KnobValues \X KnobValues \X KnobValues \X KnobValues,
     rd \in Radii}

\* the reference configuration of the loop-closure property (the defaults),
\* and the same timeline with the least damping the knobs allow
RefParams == DefaultParams
RefTimelineParams == {RefParams, [RefParams EXCEPT !.fluidez = Zero]}

\* time steps too coarse for the rate of turn, every parameter within its
\* documented range: one frame per turn after a long warm-up, and a hundred
\* turns in two seconds at a hundred frames per second
DivergePreRolls == 111..113
FastSpinParams ==
  [DefaultParams EXCEPT !.fps = 100, !.loops = 100, !.elasticidade = One]
DivergeParams ==
  {FastSpinParams} \cup
  {[DefaultParams EXCEPT !.duration_seconds = d, !.fps = 1,
                         !.elasticidade = One, !.amolecimento = a,
                         !.pre_roll_loops = r] :
     d \in {F(1, -3), One}, a \in {Zero, F(2, -1)}, r \in DivergePreRolls}
  \cup
  {[DefaultParams EXCEPT !.duration_seconds = One, !.fps = 1,
                         !.elasticidade = One, !.radius = Zero,
                         !.pre_roll_loops = r] : r \in DivergePreRolls}

\* a few short timelines, for repeated and parallel calls
CallParams ==
  {[DefaultParams EXCEPT !.duration_seconds = One, !.fps = MaxFps,
                         !.pre_roll_loops = r, !.fluidez = f] :
     r \in {0, 1}, f \in {Zero, Half}}

\* counts at, below and far below their minimum on a short timeline
FloorParams ==
  {[DefaultParams EXCEPT !.duration_seconds = F(25, -1), !.fps = f,
                         !.loops = l, !.pre_roll_loops = r] :
     f \in {-2, 0, 1}, l \in {-1, 0, 1}, r \in {-1, 0, 1}}

\* what the adapters are given: a short timeline with the defaults, one
\* with counts and a knob out of range and a radius that overflows, a
\* coarse one without warm-up, and one with a phase so large that a step of
\* the angle is below its precision
AdapterParams ==
  {[DefaultParams EXCEPT !.duration_seconds = One, !.fps = 2,
                         !.pre_roll_loops = 1],
   [DefaultParams EXCEPT !.duration_seconds = One, !.fps = -2,
                         !.loops = 0, !.pre_roll_loops = 1,
                         !.radius = F(1, 308), !.elasticidade = F(15, -1)],
   [DefaultParams EXCEPT !.duration_seconds = F(25, -1), !.fps = 1,
                         !.pre_roll_loops = 0, !.center_x = One,
                         !.phase0_rad = Half],
   [DefaultParams EXCEPT !.duration_seconds = One, !.fps = 2,
                         !.pre_roll_loops = 0, !.phase0_rad = F(1, 8)]}

\* a short timeline with one warm-up loop, and the same with one knob or
\* the phase changed: each knob below, at and above its documented range
PairBase ==
  [DefaultParams EXCEPT !.duration_seconds = One, !.fps = MaxFps,
                         !.pre_roll_loops = 1]
FluidezValues == KnobValues \cup {F(12, -1)}
PairParams ==
  {PairBase, [PairBase EXCEPT !.phase0_rad = Half]}
    \cup {[PairBase EXCEPT !.fluidez = k] : k \in FluidezValues}
    \cup {[PairBase EXCEPT !.elasticidade = k] : k \in KnobValues}
    \cup {[PairBase EXCEPT !.inercia = k] : k \in KnobValues}
    \cup {[PairBase EXCEPT !.amolecimento = k] : k \in KnobValues}

\* a duration long enough for the integration to be stable on every knob
RampDuration == F(60, 0)

\* the knob and phase variations on a finely sampled timeline of one or two
\* loops, without warm-up and with one loop of it
RampParams ==
  {[q EXCEPT !.duration_seconds = RampDuration, !.loops = l, !.pre_roll_loops = r] :
     q \in PairParams, l \in {1, 2}, r \in {0, 1}}

\* two phases on the finely sampled timeline with one loop of warm-up, with
\* the default elasticidade and the largest
ShiftParams ==
  {[PairBase EXCEPT !.duration_seconds = RampDuration, !.phase0_rad = ph,
                    !.elasticidade = e] : ph \in {Zero, Half}, e \in {Half, One}}

\* the input set of each specification
Pool(name) ==
  CASE name = "grid" -> TimelineParams \cup KnobParams
    [] name = "reference" -> RefTimelineParams
    [] name = "diverge" -> DivergeParams
    [] name = "calls" -> CallParams
    [] name = "floor" -> FloorParams
    [] name = "adapters" -> AdapterParams
    [] name = "pairs" -> PairParams
    [] name = "ramp" -> RampParams
    [] name = "shift" -> ShiftParams

----------------------------------------------------------------------------
(* The invocation as a state machine                                       *)

NoParams == [DefaultParams EXCEPT !.fps = 0, !.loops = 0]
NoPrev == [params |-> NoParams, pc |-> "idle", frames |-> <<>>]
NoResponse == [status |-> "none"]

\* lines 50-80 writing the floored counts back into the caller's object
EnterWriteBack(p, q, c) ==
  /\ params' = [params EXCEPT ![p] =
       [q EXCEPT !.fps = Fps(q), !.loops = Loops(q),
                 !.pre_roll_loops = PreLoops(q)]]
  /\ plan' = [plan EXCEPT ![p] = c]
  /\ exc' = [exc EXCEPT ![p] = c.exc]
  /\ IF c.exc # "none"
     THEN /\ pc' = [pc EXCEPT ![p] = "raised"]
          /\ trk' = [trk EXCEPT ![p] = NoTrackers]
          /\ t' = [t EXCEPT ![p] = Zero]
     ELSE /\ pc' = [pc EXCEPT ![p] = "warmup"]
          /\ trk' = [trk EXCEPT ![p] = InitTrackers(q, c)]
          /\ t' = [t EXCEPT ![p] = IF c.pre_steps > 0
                                   THEN FNeg(c.pre_duration) ELSE Zero]

\* lines 50-80 with the derived constants c (and line 106, the start time
\* of the warm-up)
Enter(p, q, c) ==
  /\ params' = [params EXCEPT ![p] = q]
  /\ plan' = [plan EXCEPT ![p] = c]
  /\ exc' = [exc EXCEPT ![p] = c.exc]
  /\ IF c.exc # "none"
     THEN /\ pc' = [pc EXCEPT ![p] = "raised"]
          /\ trk' = [trk EXCEPT ![p] = NoTrackers]
          /\ t' = [t EXCEPT ![p] = Zero]
     ELSE /\ pc' = [pc EXCEPT ![p] = "warmup"]
          /\ trk' = [trk EXCEPT ![p] = InitTrackers(q, c)]
          /\ t' = [t EXCEPT ![p] = IF c.pre_steps > 0
                                   THEN FNeg(c.pre_duration) ELSE Zero]

\* generate_loop is called
Call(p) ==
  /\ pc[p] \in {"idle", "returned", "raised"}
  /\ budget[p] > 0
  /\ \E q \in Pool(suite) :
       /\ Enter(p, q, Plan(q))
       /\ req' = [req EXCEPT ![p] = q]
  /\ via' = [via EXCEPT ![p] = "direct"]
  /\ resp' = [resp EXCEPT ![p] = NoResponse]
  /\ budget' = [budget EXCEPT ![p] = @ - 1]
  /\ i' = [i EXCEPT ![p] = 0]
  /\ prev' = [prev EXCEPT ![p] = [params |-> params[p], pc |-> pc[p],
                                  frames |-> frames[p]]]
  /\ UNCHANGED <<suite, frames, first>>

\* lines 107-109 with theta, theta_d, psi and psi_d kept in one place for
\* all invocations instead of in the locals of each
WarmStepShared(p) ==
  /\ pc[p] = "warmup"
  /\ i[p] < plan[p].pre_steps
  /\ trk' = [r \in Procs |-> StepOnce(params[p], plan[p], trk[p], t[p])]
  /\ t' = [t EXCEPT ![p] = FAdd(t[p], plan[p].dt)]
  /\ i' = [i EXCEPT ![p] = @ + 1]
  /\ UNCHANGED <<suite, budget, pc, params, plan, frames, first, exc, prev>>
  /\ UNCHANGED caller

\* lines 107-109: one iteration of the warm-up loop
WarmStep(p) ==
  /\ pc[p] = "warmup"
  /\ i[p] < plan[p].pre_steps
  /\ trk' = [trk EXCEPT ![p] = StepOnce(params[p], plan[p], trk[p], t[p])]
  /\ t' = [t EXCEPT ![p] = FAdd(t[p], plan[p].dt)]
  /\ i' = [i EXCEPT ![p] = @ + 1]
  /\ UNCHANGED <<suite, budget, pc, params, plan, frames, first, exc, prev>>
  /\ UNCHANGED caller

\* lines 111-113 with the list of an earlier call kept instead of a new one
BeginRecordKeep(p) ==
  /\ pc[p] = "warmup"
  /\ i[p] >= plan[p].pre_steps
  /\ pc' = [pc EXCEPT ![p] = "record"]
  /\ t' = [t EXCEPT ![p] = Zero]
  /\ i' = [i EXCEPT ![p] = 0]
  /\ UNCHANGED <<suite, budget, params, plan, trk, frames, first, exc, prev>>
  /\ UNCHANGED caller

\* lines 111-113 with t left where the warm-up ended instead of set to 0.0
BeginRecordTimeKept(p) ==
  /\ pc[p] = "warmup"
  /\ i[p] >= plan[p].pre_steps
  /\ pc' = [pc EXCEPT ![p] = "record"]
  /\ frames' = [frames EXCEPT ![p] = <<>>]
  /\ i' = [i EXCEPT ![p] = 0]
  /\ UNCHANGED <<suite, budget, params, plan, trk, t, first, exc, prev>>
  /\ UNCHANGED caller

\* lines 111-113 with the trackers put back to their state of lines 77-80
BeginRecordReset(p) ==
  /\ pc[p] = "warmup"
  /\ i[p] >= plan[p].pre_steps
  /\ pc' = [pc EXCEPT ![p] = "record"]
  /\ frames' = [frames EXCEPT ![p] = <<>>]
  /\ t' = [t EXCEPT ![p] = Zero]
  /\ i' = [i EXCEPT ![p] = 0]
  /\ trk' = [trk EXCEPT ![p] = InitTrackers(params[p], plan[p])]
  /\ UNCHANGED <<suite, budget, params, plan, first, exc, prev>>
  /\ UNCHANGED caller

\* lines 111-113: the warm-up is over (or was skipped)
BeginRecord(p) ==
  /\ pc[p] = "warmup"
  /\ i[p] >= plan[p].pre_steps
  /\ pc' = [pc EXCEPT ![p] = "record"]
  /\ frames' = [frames EXCEPT ![p] = <<>>]
  /\ t' = [t EXCEPT ![p] = Zero]
  /\ i' = [i EXCEPT ![p] = 0]
  /\ UNCHANGED <<suite, budget, params, plan, trk, first, exc, prev>>
  /\ UNCHANGED caller

\* lines 117-142 with the frame taken from the tracker state of before
\* the advance
RecordBefore(p, s) ==
  /\ trk' = [trk EXCEPT ![p] = s]
  /\ first' = [first EXCEPT ![p] = IF i[p] = 0 THEN s ELSE @]
  /\ exc' = [exc EXCEPT ![p] = SampleExc(params[p], plan[p], trk[p])]
  /\ IF exc'[p] # "none"
     THEN /\ pc' = [pc EXCEPT ![p] = "raised"]
          /\ UNCHANGED <<frames, t, i>>
     ELSE /\ frames' = [frames EXCEPT ![p] =
               Append(@, Sample(params[p], plan[p], trk[p], i[p], t[p]))]
          /\ t' = [t EXCEPT ![p] = FAdd(t[p], plan[p].dt)]
          /\ i' = [i EXCEPT ![p] = @ + 1]
          /\ UNCHANGED pc

\* lines 117-142 on the advanced tracker state s
Record(p, s) ==
  /\ trk' = [trk EXCEPT ![p] = s]
  /\ first' = [first EXCEPT ![p] = IF i[p] = 0 THEN s ELSE @]
  /\ exc' = [exc EXCEPT ![p] = SampleExc(params[p], plan[p], s)]
  /\ IF exc'[p] # "none"
     THEN /\ pc' = [pc EXCEPT ![p] = "raised"]
          /\ UNCHANGED <<frames, t, i>>
     ELSE /\ frames' = [frames EXCEPT ![p] =
               Append(@, Sample(params[p], plan[p], s, i[p], t[p]))]
          /\ t' = [t EXCEPT ![p] = FAdd(t[p], plan[p].dt)]
          /\ i' = [i EXCEPT ![p] = @ + 1]
          /\ UNCHANGED pc

\* lines 114-142: one iteration of the recording loop
RecordStep(p) ==
  /\ pc[p] = "record"
  /\ i[p] < plan[p].N
  /\ Record(p, StepOnce(params[p], plan[p], trk[p], t[p]))
  /\ UNCHANGED <<suite, budget, params, plan, prev>>
  /\ UNCHANGED caller

\* line 144
Return(p) ==
  /\ pc[p] = "record"
  /\ i[p] >= plan[p].N
  /\ pc' = [pc EXCEPT ![p] = "returned"]
  /\ UNCHANGED <<suite, budget, params, plan, trk, t, i, frames, first, exc,
                  prev>>
  /\ UNCHANGED caller

\* the argparse namespace of cli.py (lines 12-24) holding the values of q
CliArgs(q) ==
  [duration |-> q.duration_seconds, fps |-> q.fps, radius |-> q.radius,
   center_x |-> q.center_x, center_y |-> q.center_y,
   phase0 |-> q.phase0_rad, elasticidade |-> q.elasticidade,
   fluidez |-> q.fluidez, inercia |-> q.inercia,
   amolecimento |-> q.amolecimento, loops |-> q.loops,
   pre_roll_loops |-> q.pre_roll_loops, out |-> "-"]

\* cli.py lines 31-44: the LoopParams built from the namespace
ParamsOfArgs(args) ==
  [duration_seconds |-> args.duration, fps |-> args.fps,
   radius |-> args.radius, center_x |-> args.center_x,
   center_y |-> args.center_y, phase0_rad |-> args.phase0,
   elasticidade |-> args.elasticidade, fluidez |-> args.fluidez,
   inercia |-> args.inercia, amolecimento |-> args.amolecimento,
   loops |-> args.loops, pre_roll_loops |-> args.pre_roll_loops]

\* api/main.py line 55: LoopParams(**req.dict()) for a LoopRequest r
\* (lines 22-34)
ParamsOfRequest(r) ==
  [duration_seconds |-> r.duration_seconds, fps |-> r.fps,
   radius |-> r.radius, center_x |-> r.center_x, center_y |-> r.center_y,
   phase0_rad |-> r.phase0_rad, elasticidade |-> r.elasticidade,
   fluidez |-> r.fluidez, inercia |-> r.inercia,
   amolecimento |-> r.amolecimento, loops |-> r.loops,
   pre_roll_loops |-> r.pre_roll_loops]

\* scripts/export_loop.py line 18
ExportParams ==
  [DefaultParams EXCEPT !.duration_seconds = F(2, 0), !.fps = 60,
                         !.radius = F(120, 0), !.elasticidade = F(65, -2),
                         !.fluidez = F(55, -2), !.inercia = F(4, -1),
                         !.amolecimento = F(25, -2), !.loops = 1,
                         !.pre_roll_loops = 3]

\* dataclasses.asdict(f) of cli.py line 48 and export_loop.py line 20
asdict(f) ==
  [index |-> f.index, time |-> f.time, x |-> f.x, y |-> f.y,
   travel_angle |-> f.travel_angle, orientation |-> f.orientation,
   scale_tangent |-> f.scale_tangent, scale_normal |-> f.scale_normal]

\* api/main.py lines 58-67: LoopFrameResponse(...).dict()
LoopFrameResponse(f) ==
  [index |-> f.index, time |-> f.time, x |-> f.x, y |-> f.y,
   travel_angle |-> f.travel_angle, orientation |-> f.orientation,
   scale_tangent |-> f.scale_tangent, scale_normal |-> f.scale_normal]

\* an adapter builds the LoopParams q from the values it was given and
\* calls generate_loop(q); the adapter of an earlier call is done
Invoke(p, who, given, q) ==
  /\ pc[p] \in {"idle", "returned", "raised"}
  /\ pc[p] = "returned" => (via[p] = "direct" \/ resp[p] # NoResponse)
  /\ budget[p] > 0
  /\ Enter(p, q, Plan(q))
  /\ req' = [req EXCEPT ![p] = given]
  /\ via' = [via EXCEPT ![p] = who]
  /\ resp' = [resp EXCEPT ![p] = NoResponse]
  /\ budget' = [budget EXCEPT ![p] = @ - 1]
  /\ i' = [i EXCEPT ![p] = 0]
  /\ prev' = [prev EXCEPT ![p] = [params |-> params[p], pc |-> pc[p],
                                  frames |-> frames[p]]]
  /\ UNCHANGED <<suite, frames, first>>

\* a direct call of generate_loop next to the adapters
DirectCall(p) ==
  \E q \in Pool(suite) : Invoke(p, "direct", q, q)

\* cli.py lines 28-45
CliMain(p) ==
  \E q \in Pool(suite) : Invoke(p, "cli", CliArgs(q), ParamsOfArgs(CliArgs(q)))

\* api/main.py lines 54-56
ApiGenerateLoop(p) ==
  \E r \in Pool(suite) : Invoke(p, "api", r, ParamsOfRequest(r))

\* scripts/export_loop.py lines 17-19
ExportMain(p) == Invoke(p, "export", ExportParams, ExportParams)

\* an adapter hands back data after generate_loop returned
Respond(p, who, data) ==
  /\ pc[p] = "returned"
  /\ via[p] = who
  /\ resp[p] = NoResponse
  /\ resp' = [resp EXCEPT ![p] = data]
  /\ UNCHANGED <<suite, budget, pc, params, plan, trk, t, i, frames, first,
                  exc, prev, via, req>>

\* cli.py lines 46-56: params.__dict__ and the frames as dicts
CliWrite(p) ==
  Respond(p, "cli",
          [status |-> "ok", params |-> params[p],
           frames |-> [k \in 1..Len(frames[p]) |-> asdict(frames[p][k])]])

\* api/main.py lines 57-70 echoing the LoopParams fields as generate_loop
\* used them
ApiReturnUsed(p) ==
  Respond(p, "api",
          [status |-> "ok",
           params |-> [params[p] EXCEPT !.fps = Fps(params[p]),
                                        !.loops = Loops(params[p])],
           frames |-> [k \in 1..Len(frames[p]) |->
                         LoopFrameResponse(frames[p][k])]])

\* api/main.py lines 57-70: req.dict() and the frames as dicts
ApiReturn(p) ==
  Respond(p, "api",
          [status |-> "ok", params |-> req[p],
           frames |-> [k \in 1..Len(frames[p]) |->
                         LoopFrameResponse(frames[p][k])]])

\* scripts/export_loop.py lines 20-24
ExportWrite(p) ==
  Respond(p, "export",
          [status |-> "ok", params |-> params[p],
           frames |-> [k \in 1..Len(frames[p]) |-> asdict(frames[p][k])]])

Next ==
  \E p \in Procs :
    \/ Call(p)
    \/ WarmStep(p)
    \/ BeginRecord(p)
    \/ RecordStep(p)
    \/ Return(p)

\* generate_loop reached directly and through each adapter
NextAdapters ==
  \E p \in Procs :
    \/ DirectCall(p)
    \/ CliMain(p)
    \/ ApiGenerateLoop(p)
    \/ ExportMain(p)
    \/ WarmStep(p)
    \/ BeginRecord(p)
    \/ RecordStep(p)
    \/ Return(p)
    \/ CliWrite(p)
    \/ ApiReturn(p)
    \/ ExportWrite(p)

\* the state before any call, for the given input set and call budgets
InitWith(name, budgets) ==
  /\ suite = name
  /\ budget = budgets
  /\ pc = [p \in Procs |-> "idle"]
  /\ params = [p \in Procs |-> NoParams]
  /\ plan = [p \in Procs |-> NoPlan("none")]
  /\ trk = [p \in Procs |-> NoTrackers]
  /\ t = [p \in Procs |-> Zero]
  /\ i = [p \in Procs |-> 0]
  /\ frames = [p \in Procs |-> <<>>]
  /\ first = [p \in Procs |-> NoTrackers]
  /\ exc = [p \in Procs |-> "none"]
  /\ prev = [p \in Procs |-> NoPrev]
  /\ via = [p \in Procs |-> "direct"]
  /\ req = [p \in Procs |-> NoParams]
  /\ resp = [p \in Procs |-> NoResponse]

----------------------------------------------------------------------------
(* Specifications                                                          *)

\* invocation p makes one call, the other invocations none
Once(p) == [r \in Procs |-> IF r = p THEN 1 ELSE 0]

\* one call of generate_loop on any input of the grid
Init == InitWith("grid", Once(1))
Spec == Init /\ [][Next]_vars

\* one call on the reference timeline
InitRef == InitWith("reference", Once(1))
SpecRef == InitRef /\ [][Next]_vars

\* one call with a time step too coarse for the rate of turn
InitDiverge == InitWith("diverge", Once(1))
SpecDiverge == InitDiverge /\ [][Next]_vars

\* invocation 1 makes two calls in a row, invocation 2 one call
InitCalls == InitWith("calls", [r \in Procs |-> 3 - r])
SpecCalls == InitCalls /\ [][Next]_vars

\* invocation 1 makes two calls in a row on degenerate counts
InitFloor == InitWith("floor", [r \in Procs |-> IF r = 1 THEN 2 ELSE 0])
SpecFloor == InitFloor /\ [][Next]_vars

\* invocation 1 makes two calls in a row, each directly or through an
\* adapter
InitAdapters == InitWith("adapters", [r \in Procs |-> IF r = 1 THEN 2 ELSE 0])
SpecAdapters == InitAdapters /\ [][NextAdapters]_vars

\* invocation 1 makes two calls in a row on parameters that differ in at
\* most one knob or the phase
InitPairs == InitWith("pairs", [r \in Procs |-> IF r = 1 THEN 2 ELSE 0])
SpecPairs == InitPairs /\ [][Next]_vars

\* one call with or without warm-up, on any knob value
InitRamp == InitWith("ramp", Once(1))
SpecRamp == InitRamp /\ [][Next]_vars

\* invocation 1 makes two calls in a row on shifted phases
InitShift == InitWith("shift", [r \in Procs |-> IF r = 1 THEN 2 ELSE 0])
SpecShift == InitShift /\ [][Next]_vars

----------------------------------------------------------------------------
(* Properties                                                              *)

Finished(p) == pc[p] \in {"returned", "raised"}

\* the frames generate_loop has built so far in the current call
CurFrames(p) == IF pc[p] \in {"record", "returned"} THEN frames[p] ELSE <<>>

InRange01(x) == FLe(Zero, x) /\ FLe(x, One)

\* the parameters lie in the ranges section 3 of the spec documents
Documented(q) ==
  /\ q.fps >= 1 /\ q.loops >= 1 /\ q.pre_roll_loops >= 0
  /\ FGt(q.duration_seconds, Zero)
  /\ InRange01(q.elasticidade) /\ InRange01(q.fluidez)
  /\ InRange01(q.inercia) /\ InRange01(q.amolecimento)

\* C1: every call with fps >= 1 returns, and the list it returns has exactly
\* max(1, round(duration_seconds * fps)) frames; while recording the list
\* holds one frame per recorded iteration: the warm-up added none.
C1_FrameCount ==
  \A p \in Procs :
    /\ pc[p] = "record" => Len(frames[p]) = i[p]
    /\ (Finished(p) /\ params[p].fps >= 1) =>
         /\ pc[p] = "returned"
         /\ Len(frames[p]) =
              IMax(1, RoundInt(FMul(params[p].duration_seconds,
                                    FromInt(params[p].fps))))

\* C2: calls with identical LoopParams end the same way and return identical
\* frames, whether the call is the first of its invocation, follows another
\* call, or runs next to another invocation.
C2_Deterministic ==
  /\ \A p \in Procs :
       (Finished(p) /\ prev[p].pc \in {"returned", "raised"}
          /\ prev[p].params = params[p]) =>
         /\ pc[p] = prev[p].pc
         /\ pc[p] = "returned" => frames[p] = prev[p].frames
  /\ \A p, r \in Procs :
       (Finished(p) /\ Finished(r) /\ params[p] = params[r]) =>
         /\ pc[p] = pc[r]
         /\ pc[p] = "returned" => frames[p] = frames[r]

C2_Witness ==
  /\ pc[1] = "returned" /\ pc[2] = "returned"
  /\ prev[1].pc = "returned" /\ prev[1].params = params[1]
  /\ params[1] = params[2] /\ Len(frames[1]) > 1
  /\ plan[1].pre_steps > 0

\* C3: every frame has 0.4 <= scale_tangent <= 2.5 and
\* 0.4 <= scale_normal <= 2.5.
C3_ScaleBounds ==
  \A p \in Procs : \A k \in 1..Len(CurFrames(p)) :
    /\ FLe(F(4, -1), frames[p][k].scale_tangent)
    /\ FLe(frames[p][k].scale_tangent, F(25, -1))
    /\ FLe(F(4, -1), frames[p][k].scale_normal)
    /\ FLe(frames[p][k].scale_normal, F(25, -1))

\* C4: in every frame scale_normal is the reciprocal of scale_tangent (the
\* clamp of line 128 never alters 1 / scale_tangent), so that their product
\* is 1 up to the rounding of the division.
C4_Reciprocal ==
  \A p \in Procs : \A k \in 1..Len(CurFrames(p)) :
    /\ frames[p][k].scale_normal = FDiv(One, frames[p][k].scale_tangent)
    /\ ~IsNaN(frames[p][k].scale_tangent) =>
         FLe(FAbs(FSub(FMul(frames[p][k].scale_tangent,
                            frames[p][k].scale_normal), One)), F(1, -5))

C4_Witness ==
  \E p \in Procs : \E k \in 1..Len(CurFrames(p)) :
    /\ frames[p][k].scale_tangent = F(4, -1)
    /\ frames[p][k].scale_normal = F(25, -1)

\* C5: with amolecimento <= 0 every frame has scale_tangent = 1 and
\* scale_normal = 1.
C5_ZeroSoftening ==
  \A p \in Procs : \A k \in 1..Len(CurFrames(p)) :
    FLe(params[p].amolecimento, Zero) =>
      /\ frames[p][k].scale_tangent = One
      /\ frames[p][k].scale_normal = One

\* C6: when round(duration_seconds * fps) < 1 the call does not fail: it
\* returns exactly one frame, with index 0 and time 0.
C6_DegenerateDuration ==
  \A p \in Procs :
    (Finished(p) /\ IsFinite(FrameProduct(params[p]))
       /\ RoundInt(FrameProduct(params[p])) < 1) =>
      /\ pc[p] = "returned"
      /\ Len(frames[p]) = 1
      /\ frames[p][1].index = 0
      /\ frames[p][1].time = Zero

\* C7: for parameters in the documented ranges travel_angle never decreases
\* from one frame to the next.
C7_Monotone ==
  \A p \in Procs : \A k \in 1..(Len(CurFrames(p)) - 1) :
    Documented(params[p]) =>
      FLe(frames[p][k].travel_angle, frames[p][k + 1].travel_angle)

\* the angle the target advances per frame, 2 * pi * loops / N
MeanStep(q, c) == FDiv(FMul(FMul(Two, Pi), FromInt(Loops(q))), FromInt(c.N))

\* a and b differ by at most tol
Near(a, b, tol) == FLe(FAbs(FSub(a, b)), tol)

\* one percent of the reference configuration's step of 2 * pi / 120
ClosureTol == F(5, -4)

\* C8: in the reference configuration every difference travel_angle[k+1] -
\* travel_angle[k], from the first pair of frames on, equals
\* 2 * pi * loops / N within one percent.
C8_LoopClosure ==
  \A p \in Procs : \A k \in 1..(Len(CurFrames(p)) - 1) :
    params[p] = RefParams =>
      Near(FSub(frames[p][k + 1].travel_angle, frames[p][k].travel_angle),
           MeanStep(params[p], plan[p]), ClosureTol)

C8_Witness ==
  \E p \in Procs :
    /\ pc[p] = "returned" /\ params[p] = RefParams
    /\ plan[p].pre_steps = 360 /\ Len(frames[p]) = 120

\* the trackers one advance past the last frame, where frame N would be
\* sampled
FrameN(p) == StepOnce(params[p], plan[p], trk[p], t[p])

SeamTol == F(1, -2)

\* C9: for knobs in [0, 1] and pre_roll_loops >= 3, advancing the trackers
\* of a returned call to frame N gives the travel_angle of frame 0 plus
\* 2 * pi * loops and the angular velocity of frame 0, within a hundredth.
C9_Seamless ==
  \A p \in Procs :
    (pc[p] = "returned" /\ Documented(params[p])
       /\ params[p].pre_roll_loops >= 3) =>
      /\ Near(FrameN(p).theta,
              FAdd(frames[p][1].travel_angle,
                   FMul(FMul(Two, Pi), FromInt(Loops(params[p])))),
              SeamTol)
      /\ Near(FrameN(p).theta_d, first[p].theta_d, SeamTol)

\* C10: no call raises, and the divisors are positive: T and omega_target
\* once planned, v_mean, and scale_tangent in every frame.
C10_NoFailure ==
  \A p \in Procs :
    /\ pc[p] # "raised"
    /\ pc[p] \in {"warmup", "record", "returned"} =>
         /\ FGt(plan[p].T, Zero)
         /\ FGt(plan[p].omega_target, Zero)
         /\ FGt(VMean(params[p], plan[p]), Zero)
    /\ \A k \in 1..Len(CurFrames(p)) : FGt(frames[p][k].scale_tangent, Zero)

\* q with each degenerate count replaced by its minimum valid value
Floored(q) ==
  [q EXCEPT !.fps = IF @ <= 0 THEN 1 ELSE @,
            !.loops = IF @ <= 0 THEN 1 ELSE @,
            !.pre_roll_loops = IF @ < 0 THEN 0 ELSE @]

\* C11: two calls whose parameters agree once fps <= 0 is replaced by 1,
\* loops <= 0 by 1 and pre_roll_loops < 0 by 0 end the same way and return
\* the same frames.
C11_Floored ==
  \A p \in Procs :
    (Finished(p) /\ prev[p].pc \in {"returned", "raised"}
       /\ Floored(prev[p].params) = Floored(params[p])) =>
      /\ pc[p] = prev[p].pc
      /\ frames[p] = prev[p].frames

C11_Witness ==
  \E p \in Procs :
    /\ pc[p] = "returned" /\ prev[p].pc = "returned"
    /\ prev[p].params.fps = -2 /\ prev[p].params.loops = 0
    /\ prev[p].params.pre_roll_loops = -1
    /\ params[p].fps = 1 /\ params[p].loops = 1
    /\ params[p].pre_roll_loops = 0
    /\ Len(frames[p]) = 2 /\ frames[p] = prev[p].frames

\* C12 as stated: frame k (from 0) has index k and time exactly k * dt.
C12_ExactTime ==
  \A p \in Procs : \A k \in 1..Len(CurFrames(p)) :
    /\ frames[p][k].index = k - 1
    /\ frames[p][k].time = FMul(FromInt(k - 1), plan[p].dt)

\* C12, amended: the frames carry index 0, 1, ... in order; dt is 1 / fps;
\* the first time is 0 and every later time is the float sum of the time
\* before it and dt, which stays within a tenth of dt of index * dt and
\* below the period T.
C12_IndexTime ==
  \A p \in Procs : \A k \in 1..Len(CurFrames(p)) :
    /\ frames[p][k].index = k - 1
    /\ plan[p].dt = FDiv(One, FromInt(Fps(params[p])))
    /\ frames[p][k].time =
         IF k = 1 THEN Zero ELSE FAdd(frames[p][k - 1].time, plan[p].dt)
    /\ Near(frames[p][k].time, FMul(FromInt(k - 1), plan[p].dt),
            FMul(F(1, -1), plan[p].dt))
    /\ FLt(frames[p][k].time, plan[p].T)

C12_Witness ==
  \E p \in Procs :
    /\ pc[p] = "returned" /\ plan[p].pre_steps > 0
    /\ Len(frames[p]) = plan[p].N /\ plan[p].N > 100
    /\ frames[p][plan[p].N].time # FMul(FromInt(plan[p].N - 1), plan[p].dt)

\* lines 107-109 run without interruption: the trackers after n more
\* warm-up iterations
RECURSIVE AloneWarm(_, _, _, _, _)
AloneWarm(q, c, s, tt, n) ==
  IF n <= 0 THEN s
  ELSE AloneWarm(q, c, StepOnce(q, c, s, tt), FAdd(tt, c.dt), n - 1)

\* lines 114-144 run without interruption from iteration k on, out being
\* the frames so far, and s the trackers already advanced in iteration k
RECURSIVE AloneSample(_, _, _, _, _, _)
AloneSample(q, c, s, tt, k, out) ==
  IF SampleExc(q, c, s) # "none" THEN [pc |-> "raised", frames |-> out]
  ELSE IF k + 1 >= c.N
  THEN [pc |-> "returned", frames |-> Append(out, Sample(q, c, s, k, tt))]
  ELSE AloneSample(q, c, StepOnce(q, c, s, FAdd(tt, c.dt)),
                   FAdd(tt, c.dt), k + 1,
                   Append(out, Sample(q, c, s, k, tt)))

\* lines 104-144 from the initial trackers s
AloneLoops(q, c, s) ==
  AloneSample(q, c, StepOnce(q, c, s, Zero), Zero, 0, <<>>)

\* lines 77-144 with derived constants c
AlonePlanned(q, c) ==
  IF c.exc # "none" THEN [pc |-> "raised", frames |-> <<>>]
  ELSE AloneLoops(q, c, AloneWarm(q, c, InitTrackers(q, c),
                                  FNeg(c.pre_duration), c.pre_steps))

\* generate_loop(q) run alone, start to end: how it ends and the frames
Alone(q) == AlonePlanned(q, Plan(q))

\* C13: whatever the interleaving of the iterations of the invocations,
\* each finished call ended the way the same call ends when run alone, and
\* returned the frames it returns when run alone.
C13_Independent ==
  \A p \in Procs :
    Finished(p) =>
      /\ pc[p] = Alone(params[p]).pc
      /\ pc[p] = "returned" => frames[p] = Alone(params[p]).frames

C13_Witness ==
  /\ pc[1] = "returned" /\ Len(frames[1]) > 1 /\ plan[1].pre_steps > 0
  /\ pc[2] = "record" /\ i[2] = 1 /\ plan[2].pre_steps > 0
  /\ params[1] # params[2]

\* C14: from the moment generate_loop is entered, and after it has
\* returned or raised, every field of the LoopParams object passed in has
\* the value the caller gave it.
C14_ReadOnly ==
  \A p \in Procs :
    (pc[p] # "idle" /\ via[p] = "direct") => params[p] = req[p]

C14_Witness ==
  \E p \in Procs :
    /\ pc[p] = "returned" /\ via[p] = "direct"
    /\ req[p].fps = -2 /\ req[p].loops = 0 /\ req[p].pre_roll_loops = -1
    /\ plan[p].dt = One /\ plan[p].pre_steps = 0
    /\ params[p].fps = -2 /\ params[p].loops = 0
    /\ params[p].pre_roll_loops = -1

FrameFields ==
  {"index", "time", "x", "y", "travel_angle", "orientation",
   "scale_tangent", "scale_normal"}

\* frame dictionary d carries the eight fields of frame f and nothing else
SameFrame(d, f) ==
  /\ DOMAIN d = FrameFields
  /\ d.index = f.index /\ d.time = f.time /\ d.x = f.x /\ d.y = f.y
  /\ d.travel_angle = f.travel_angle /\ d.orientation = f.orientation
  /\ d.scale_tangent = f.scale_tangent /\ d.scale_normal = f.scale_normal

\* the values given to the adapter of p, under the LoopParams field names
Supplied(p) ==
  IF via[p] = "cli"
  THEN [duration_seconds |-> req[p].duration, fps |-> req[p].fps,
        radius |-> req[p].radius, center_x |-> req[p].center_x,
        center_y |-> req[p].center_y, phase0_rad |-> req[p].phase0,
        elasticidade |-> req[p].elasticidade, fluidez |-> req[p].fluidez,
        inercia |-> req[p].inercia, amolecimento |-> req[p].amolecimento,
        loops |-> req[p].loops, pre_roll_loops |-> req[p].pre_roll_loops]
  ELSE req[p]

\* C15: what an adapter hands back holds, in order, the frames
\* generate_loop returned to it, each with the same eight fields, and under
\* params the values as supplied; and a call that follows a call on the
\* same parameter values, whichever way either was made (directly, CLI,
\* HTTP endpoint, exporter), returns the same frames.
C15_Adapters ==
  \A p \in Procs :
    /\ resp[p] # NoResponse =>
         /\ pc[p] = "returned" /\ via[p] \in {"cli", "api", "export"}
         /\ Len(resp[p].frames) = Len(frames[p])
         /\ \A k \in 1..Len(frames[p]) :
              SameFrame(resp[p].frames[k], frames[p][k])
         /\ resp[p].params = Supplied(p)
    /\ (pc[p] = "returned" /\ prev[p].pc = "returned"
          /\ prev[p].params = params[p]) => frames[p] = prev[p].frames

C15_Witness ==
  \E p \in Procs :
    /\ via[p] = "api" /\ resp[p] # NoResponse
    /\ resp[p].params.fps = -2 /\ resp[p].params.loops = 0
    /\ resp[p].params.elasticidade = F(15, -1)
    /\ prev[p].pc = "returned" /\ prev[p].params = params[p]
    /\ Len(resp[p].frames) = 1
    /\ IsNaN(resp[p].frames[1].scale_tangent)

\* C16: simulated time runs continuously from the warm-up into the
\* recording: when a warm-up of at least one step is over, the running time
\* t, advanced by dt per step from -pre_duration, has arrived at 0, the time
\* of the first recorded step; that is, pre_steps * dt = pre_duration.
C16_ContinuousTime ==
  \A p \in Procs :
    (pc[p] = "warmup" /\ plan[p].pre_steps >= 1
      /\ i[p] = plan[p].pre_steps) =>
        /\ t[p] = Zero
        /\ FMul(FromInt(plan[p].pre_steps), plan[p].dt) = plan[p].pre_duration

\* the advances of the two trackers the current call of p has made
Advances(p) ==
  CASE pc[p] = "warmup" -> i[p]
    [] pc[p] = "raised" /\ plan[p].exc = "none" -> plan[p].pre_steps + i[p] + 1
    [] pc[p] \in {"record", "returned"} -> plan[p].pre_steps + i[p]
    [] OTHER -> 0

\* round((pre_roll_loops / loops) * N) on the floored counts
RoundedPreRoll(q, N) ==
  IMax(0, RoundInt(FMul(FDiv(FromInt(PreLoops(q)), FromInt(Loops(q))),
                        FromInt(N))))

\* C17: every call ends after exactly pre_steps + N advances, with
\* pre_steps = round((pre_roll_loops / loops) * N); the warm-up advances
\* emit no frame and each of the N advances after it emits one.
C17_StepCount ==
  \A p \in Procs :
    /\ pc[p] = "warmup" => i[p] <= plan[p].pre_steps
    /\ pc[p] = "record" => Len(frames[p]) = i[p] /\ i[p] <= plan[p].N
    /\ Finished(p) =>
         /\ Advances(p) = plan[p].pre_steps + plan[p].N
         /\ Len(frames[p]) = plan[p].N
         /\ plan[p].pre_steps = RoundedPreRoll(params[p], plan[p].N)

\* C18: tracker state is never reset within a call: passing from the
\* warm-up to the recording leaves theta, theta_d, psi and psi_d as the last
\* warm-up advance left them (only t is set to 0), and while a call runs
\* every change of its tracker state is one advance by step_once.
C18_NeverReset ==
  [][\A p \in Procs :
       /\ (pc[p] = "warmup" /\ pc'[p] = "record") =>
            (trk'[p] = trk[p] /\ t'[p] = Zero)
       /\ (pc[p] \in {"warmup", "record"} /\ trk'[p] # trk[p]) =>
            trk'[p] = StepOnce(params[p], plan[p], trk[p], t[p])]_vars

C18_Witness ==
  \E p \in Procs :
    /\ pc[p] = "record" /\ i[p] = 0 /\ t[p] = Zero
    /\ plan[p].pre_steps >= 2
    /\ trk[p] # InitTrackers(params[p], plan[p])
    /\ trk[p].theta # params[p].phase0_rad

\* psi_dd for an orientation tracker at psi, psi_d chasing the tangent of
\* an angle tracker at theta, theta_d
TangentPull(c, theta, theta_d, psi, psi_d) ==
  FAdd(FMul(FMul(c.omega_n_orient, c.omega_n_orient),
            FSub(FAdd(theta, FMul(Pi, Half)), psi)),
       FMul(FMul(FMul(Two, c.zeta_orient), c.omega_n_orient),
            FSub(theta_d, psi_d)))

\* C19: in every advance the orientation tracker chases the angle tracker
\* as already advanced in that same step (psi_target = new theta + pi/2,
\* psi_target_d = new theta_d), and each tracker's position is advanced by
\* its new velocity times dt.
C19_StepOrder ==
  [][\A p \in Procs :
       (pc[p] \in {"warmup", "record"} /\ trk'[p] # trk[p]) =>
         /\ trk'[p].theta =
              FAdd(trk[p].theta, FMul(trk'[p].theta_d, plan[p].dt))
         /\ trk'[p].psi_d =
              FAdd(trk[p].psi_d,
                   FMul(TangentPull(plan[p], trk'[p].theta, trk'[p].theta_d,
                                    trk[p].psi, trk[p].psi_d),
                        plan[p].dt))
         /\ trk'[p].psi =
              FAdd(trk[p].psi, FMul(trk'[p].psi_d, plan[p].dt))]_vars

\* the first advance of a call without warm-up has moved the angle, and the
\* orientation differs from the one chasing the angle of before the advance
C19_Witness ==
  \E p \in Procs :
    /\ pc[p] = "record" /\ i[p] = 1 /\ plan[p].pre_steps = 0
    /\ trk[p].theta # params[p].phase0_rad
    /\ IsFinite(trk[p].psi)
    /\ trk[p].psi #
         StepOrient(plan[p], InitTrackers(params[p], plan[p]),
                    <<params[p].phase0_rad, plan[p].omega_target>>)[1]

LastFrame(fs) == fs[Len(fs)]

\* C20 as stated: every frame has time = index * dt and holds the tracker
\* state of after its advance, and frame 0 does not hold the initial angle
\* phase0_rad.
C20_IndexTimeMoved ==
  \A p \in Procs :
    /\ \A k \in 1..Len(CurFrames(p)) :
         frames[p][k].time = FMul(FromInt(k - 1), plan[p].dt)
    /\ (pc[p] = "record" /\ i[p] >= 1) =>
         /\ LastFrame(frames[p]).travel_angle = trk[p].theta
         /\ LastFrame(frames[p]).orientation = trk[p].psi
    /\ Len(CurFrames(p)) >= 1 =>
         frames[p][1].travel_angle # params[p].phase0_rad

\* C20: every recorded iteration advances the trackers first and appends
\* the frame sampled from the advanced state, with index i and, as time, the
\* value of t that was passed to that advance; frame 0 holds the state of
\* after pre_steps + 1 advances.
C20_SampleAfterAdvance ==
  [][\A p \in Procs :
       (pc[p] = "record" /\ Len(frames'[p]) # Len(frames[p])) =>
         /\ trk'[p] = StepOnce(params[p], plan[p], trk[p], t[p])
         /\ Len(frames'[p]) = i[p] + 1
         /\ LastFrame(frames'[p]) =
              Sample(params[p], plan[p], trk'[p], i[p], t[p])
         /\ LastFrame(frames'[p]).time = t[p]
         /\ LastFrame(frames'[p]).travel_angle = trk'[p].theta
         /\ LastFrame(frames'[p]).orientation = trk'[p].psi
         /\ Advances(p)' = plan[p].pre_steps + i[p] + 1
         /\ i[p] = 0 => first'[p] = trk'[p]]_vars

\* frame 0 of a call with a warm-up has been appended: it holds the angle
\* of after the advance, which is neither the angle before it nor phase0_rad
C20_Witness ==
  \E p \in Procs :
    /\ pc[p] = "record" /\ i[p] = 1 /\ plan[p].pre_steps >= 1
    /\ frames[p][1].time = Zero
    /\ frames[p][1].travel_angle = trk[p].theta
    /\ first[p] = trk[p]
    /\ trk[p].theta # params[p].phase0_rad
    /\ trk[p] # InitTrackers(params[p], plan[p])

\* the call of p and the call before it have both ended
BothEnded(p) == Finished(p) /\ prev[p].pc \in {"returned", "raised"}

\* the call of p ended as the call before it did, with the same frames
SameResult(p) ==
  /\ pc[p] = prev[p].pc
  /\ pc[p] = "returned" => frames[p] = prev[p].frames

\* C21: a call ends as the earlier call on the same parameters with
\* fluidez replaced by its clamp to [0, 1] did, with the same frames.
C21_FluidezClamped ==
  \A p \in Procs :
    (BothEnded(p)
      /\ prev[p].params = [params[p] EXCEPT !.fluidez = clamp(@, Zero, One)])
        => SameResult(p)

\* q with the knob named k replaced by its clamp to [0, 1]
KnobClamped(q, k) == [q EXCEPT ![k] = clamp(@, Zero, One)]

\* C22: a call ends as the earlier call on the same parameters with
\* elasticidade, inercia or amolecimento replaced by its clamp to [0, 1]
\* did, with the same frames.
C22_KnobsClamped ==
  \A p \in Procs :
    \A k \in {"elasticidade", "inercia", "amolecimento"} :
      (BothEnded(p) /\ prev[p].params = KnobClamped(params[p], k))
        => SameResult(p)

\* a returned call with elasticidade above 1 after one with elasticidade 1
C22_Witness ==
  \E p \in Procs :
    /\ pc[p] = "returned" /\ prev[p].pc = "returned"
    /\ params[p].elasticidade = F(15, -1)
    /\ prev[p].params = KnobClamped(params[p], "elasticidade")
    /\ Len(frames[p]) = 2 /\ frames[p] = prev[p].frames
    /\ IsFinite(frames[p][2].travel_angle)

\* the call of p has derived its constants
Planned(p) == pc[p] \in {"warmup", "record", "returned"}

\* C23: the orientation tracker's natural frequency of a call lies within
\* [0.15 * omega_target, 4 * omega_target], is strictly positive, and is no
\* larger than the one any smaller inercia gives for the same omega_target.
C23_InertiaLowers ==
  \A p \in Procs :
    Planned(p) =>
      /\ FGe(plan[p].omega_n_orient, FMul(plan[p].omega_target, F(15, -2)))
      /\ FLe(plan[p].omega_n_orient, FMul(plan[p].omega_target, F(4, 0)))
      /\ FGt(plan[p].omega_n_orient, Zero)
      /\ \A j \in KnobValues \cup {Half} :
           FLe(j, params[p].inercia) =>
             FGe(OmegaNOrient(plan[p].omega_target, j),
                 plan[p].omega_n_orient)

\* a call with inercia above its range: the frequency is the one of
\* inercia = 1, strictly below the one of inercia = 0
C23_Witness ==
  \E p \in Procs :
    /\ Planned(p) /\ params[p].inercia = F(15, -1)
    /\ plan[p].omega_n_orient = OmegaNOrient(plan[p].omega_target, One)
    /\ FLt(plan[p].omega_n_orient, OmegaNOrient(plan[p].omega_target, Zero))
    /\ FGt(plan[p].omega_n_orient, FMul(plan[p].omega_target, F(15, -2)))

\* the clamp of line 128 alters the reciprocal of frame f's scale_tangent
ClampActive(f) ==
  /\ ~IsNaN(f.scale_tangent)
  /\ \/ FLt(FDiv(One, f.scale_tangent), F(4, -1))
     \/ FGt(FDiv(One, f.scale_tangent), F(25, -1))
  /\ f.scale_normal # FDiv(One, f.scale_tangent)

\* C24 as stated, put to every call: the call has reached, by the time it
\* returns, a frame for which the clamp of line 128 is active, its
\* scale_normal differing from 1 / scale_tangent.
C24_ClampActive ==
  \A p \in Procs :
    pc[p] = "returned" =>
      \E k \in 1..Len(frames[p]) : ClampActive(frames[p][k])

\* C24: the clamp of line 128 is never active: every scale_tangent that is
\* a number lies within [0.4, 1.6], its reciprocal within [0.625, 2.5], and
\* scale_normal is that reciprocal.
C24_ClampIdle ==
  \A p \in Procs : \A k \in 1..Len(CurFrames(p)) :
    ~IsNaN(frames[p][k].scale_tangent) =>
      /\ FLe(F(4, -1), frames[p][k].scale_tangent)
      /\ FLe(frames[p][k].scale_tangent, F(16, -1))
      /\ FLe(F(625, -3), FDiv(One, frames[p][k].scale_tangent))
      /\ FLe(FDiv(One, frames[p][k].scale_tangent), F(25, -1))
      /\ frames[p][k].scale_normal = FDiv(One, frames[p][k].scale_tangent)
      /\ ~ClampActive(frames[p][k])

\* a returned call has a frame at the upper end of the range of
\* scale_tangent, where the reciprocal is closest to the lower limit
C24_Witness ==
  \E p \in Procs : \E k \in 1..Len(CurFrames(p)) :
    /\ pc[p] = "returned"
    /\ frames[p][k].scale_tangent = F(16, -1)
    /\ frames[p][k].scale_normal = F(625, -3)

\* theta_target - theta of line 90 at simulated time tt with the angle at
\* theta
TrackingError(q, c, tt, theta) ==
  FSub(FAdd(q.phase0_rad, FMul(c.omega_target, tt)), theta)

\* the call of p is about to make an advance that is followed by another
FollowedAdvance(p) ==
  \/ pc[p] = "warmup" /\ i[p] < plan[p].pre_steps
  \/ pc[p] = "record" /\ i[p] + 1 < plan[p].N

\* the simulated time of the advance after the next one (lines 109, 113
\* and 142)
TimeAfter(p) ==
  IF pc[p] = "warmup" /\ i[p] + 1 = plan[p].pre_steps
  THEN Zero ELSE FAdd(t[p], plan[p].dt)

\* error e does not change sign or grow in magnitude on becoming e2
Settling(e, e2) ==
  /\ FLe(FAbs(e2), FAbs(e))
  /\ ~(FLt(e, Zero) /\ FGt(e2, Zero))
  /\ ~(FGt(e, Zero) /\ FLt(e2, Zero))

\* C25: with documented parameters and zeta >= 1, from one advance of the
\* angle tracker to the next, in the warm-up and in the recording, the
\* tracking error keeps its sign and does not grow in magnitude.
C25_NoOvershoot ==
  \A p \in Procs :
    (FollowedAdvance(p) /\ Documented(params[p])
      /\ FGe(plan[p].zeta_pos, One)) =>
        Settling(TrackingError(params[p], plan[p], t[p], trk[p].theta),
                 TrackingError(params[p], plan[p], TimeAfter(p),
                               StepAngle(params[p], plan[p], trk[p],
                                         t[p])[1]))

\* the target angle of line 85 at simulated time tt
Ramp(q, c, tt) == FAdd(q.phase0_rad, FMul(c.omega_target, tt))

\* a hundredth of a radian, for the rounding of the float operations
RampTol == F(1, -2)

\* C26: a call without warm-up keeps the angle tracker on the target ramp up
\* to rounding, whatever the knobs: before every advance the tracking error
\* is zero and theta_d is omega_target, frame k - 1 has travel_angle =
\* phase0_rad + omega_target * k * dt, and frame 0 has phase0_rad + 2 * pi *
\* loops / N, which is not phase0_rad.
C26_OnRamp ==
  \A p \in Procs :
    (pc[p] \in {"record", "returned"} /\ plan[p].pre_steps = 0) =>
      /\ Near(trk[p].theta, Ramp(params[p], plan[p], t[p]), RampTol)
      /\ Near(trk[p].theta_d, plan[p].omega_target, RampTol)
      /\ Len(frames[p]) >= 1 =>
           /\ Near(LastFrame(frames[p]).travel_angle,
                   Ramp(params[p], plan[p], FMul(FromInt(Len(frames[p])), plan[p].dt)),
                   RampTol)
           /\ Near(frames[p][1].travel_angle,
                   FAdd(params[p].phase0_rad, MeanStep(params[p], plan[p])),
                   RampTol)
           /\ ~Near(frames[p][1].travel_angle, params[p].phase0_rad, RampTol)

\* a call of two loops without warm-up, with elasticidade out of range, has
\* returned with its last frame two turns after phase0_rad
C26_Witness ==
  \E p \in Procs :
    /\ pc[p] = "returned" /\ plan[p].pre_steps = 0
    /\ params[p].loops = 2 /\ params[p].elasticidade = F(15, -1)
    /\ Len(frames[p]) = plan[p].N /\ plan[p].N >= 100
    /\ Near(LastFrame(frames[p]).travel_angle, FMul(F(4, 0), Pi), RampTol)

\* the first step of a warm-up is about to run
FirstWarmStep(p) == pc[p] = "warmup" /\ i[p] = 0 /\ plan[p].pre_steps > 0

\* minus pre_roll_loops turns, pre_roll_loops floored at 0
TurnsBehind(q) == FNeg(FMul(FMul(Two, Pi), FromInt(PreLoops(q))))

\* a thousandth of a radian, for the rounding of omega_target * pre_duration
TransientTol == F(1, -3)

SameButOrientation(f, g) ==
  /\ f.index = g.index /\ f.time = g.time /\ f.x = g.x /\ f.y = g.y
  /\ f.travel_angle = g.travel_angle
  /\ f.scale_tangent = g.scale_tangent /\ f.scale_normal = g.scale_normal

\* the call of p and the call before it differ at most in inercia
InerciaPair(p) ==
  /\ BothEnded(p)
  /\ prev[p].params = [params[p] EXCEPT !.inercia = prev[p].params.inercia]

\* C28: two calls whose parameters differ only in inercia end alike, with
\* as many frames, and their frames agree on index, time, x, y,
\* travel_angle, scale_tangent and scale_normal.
C28_NoFeedback ==
  \A p \in Procs :
    InerciaPair(p) =>
      /\ pc[p] = prev[p].pc
      /\ Len(frames[p]) = Len(prev[p].frames)
      /\ \A k \in 1..Len(frames[p]) :
           SameButOrientation(frames[p][k], prev[p].frames[k])

\* two returned calls with inercia 1 and 0 whose frames differ in orientation
C28_Witness ==
  \E p \in Procs :
    /\ InerciaPair(p) /\ pc[p] = "returned"
    /\ params[p].inercia = One /\ prev[p].params.inercia = Zero
    /\ Len(frames[p]) >= 2
    /\ \E k \in 1..Len(frames[p]) :
         frames[p][k].orientation # prev[p].frames[k].orientation

\* frame f of a call on q has the scales of a normalized speed of -1
Pinned(q, f) ==
  /\ f.scale_tangent = FSub(One, StretchGain(q))
  /\ f.scale_normal = FDiv(One, f.scale_tangent)

\* C29: with radius = 0 every frame has scale_tangent = 1 - 0.6 *
\* clamp(amolecimento, 0, 1) and scale_normal = 1 / scale_tangent.
C29_PinnedScales ==
  \A p \in Procs :
    params[p].radius = Zero =>
      \A k \in 1..Len(CurFrames(p)) : Pinned(params[p], frames[p][k])

\* the call of p and the call before it differ at most in phase0_rad, and
\* both have returned
PhasePair(p) ==
  /\ pc[p] = "returned" /\ prev[p].pc = "returned"
  /\ prev[p].params = [params[p] EXCEPT !.phase0_rad = prev[p].params.phase0_rad]

\* the phase of the call of p minus the phase of the call before it
Delta(p) == FSub(params[p].phase0_rad, prev[p].params.phase0_rad)

\* a hundredth of a radian or of a scale, for the rounding of the float
\* operations
ShiftTol == F(1, -2)

\* frame f is frame g moved by d in both angles, up to rounding
Shifted(f, g, d) ==
  /\ f.index = g.index /\ f.time = g.time
  /\ Near(FSub(f.travel_angle, g.travel_angle), d, ShiftTol)
  /\ Near(FSub(f.orientation, g.orientation), d, ShiftTol)
  /\ Near(f.scale_tangent, g.scale_tangent, ShiftTol)
  /\ Near(f.scale_normal, g.scale_normal, ShiftTol)

\* C30: of two returned calls that differ only in phase0_rad, by delta, the
\* frames are as many, and frame by frame travel_angle and orientation
\* differ by delta while index, time, scale_tangent and scale_normal are the
\* same, up to rounding.
C30_PhaseShift ==
  \A p \in Procs :
    PhasePair(p) =>
      /\ Len(frames[p]) = Len(prev[p].frames)
      /\ \A k \in 1..Len(frames[p]) :
           Shifted(frames[p][k], prev[p].frames[k], Delta(p))

\* a call at phase 0.5 has returned after one at phase 0, its last frame
\* past one turn, half a radian after the other's
C30_Witness ==
  \E p \in Procs :
    /\ PhasePair(p) /\ Delta(p) = Half
    /\ Len(frames[p]) >= 100
    /\ FGt(LastFrame(frames[p]).travel_angle, FMul(Two, Pi))
    /\ Near(FSub(LastFrame(frames[p]).travel_angle,
                 LastFrame(prev[p].frames).travel_angle), Half, ShiftTol)

====
